---------------------------- MODULE Spec2Model ----------------------------
(***************************************************************************)
(* Model of the routing lab: the shortest-path engine (src/src/dijkstra.py *)
(* and the linear-scan copy in src/src/simulator.py), the flooding         *)
(* forwarder (src/src/flooding.py) and the link-state node                 *)
(* (src/src/simulator.py, class Node).                                     *)
(*                                                                         *)
(* Node identifiers "N<k>" are modelled by the integer k; the address      *)
(* "sec30.<group>.nodo<k>" of node k is modelled by the pair <<"addr",k>>. *)
(***************************************************************************)
EXTENDS Integers, Sequences, FiniteSets, TLC

VARIABLES
    graph,      \* SP: the Graph handed to dijkstra (dict of dicts)
    source,     \* SP: the source node
    order,      \* SP: iteration order of the dist dict in simulator.dijkstra
    heapRes,    \* SP: result of dijkstra.py (dist, prev, all-pairs tables)
    scanRes,    \* SP: result of simulator.py (dist, prev, next hops)
    phase,      \* SP: which functions have run
    topology,   \* FL: router.graph, the static topology every router loaded
    seen_ids,   \* FL: router.seen_ids of every node
    net,        \* FL: the deliveries the transport still owes: [chan, msg]
    dups,       \* FL: duplicate deliveries the transport has made so far
    pubCount,   \* FL: history, number of router.publish calls of every node
    pubInv,     \* FL: history, handle_message invocations of every node that published
    addCount,   \* FL: history, executions of router.seen_ids.add of every node
    lastEvt,    \* FL: history, the last handle_message invocation and what it published
    injected,   \* FL: history, the delivery that started the flooding run
    topo,       \* ND: Node.topo, topo[u][v] = meta dict with weight, time, age
    rowOrder,   \* ND: insertion order of the keys of topo[me]
    nochange_count, \* ND: Node.nochange_count
    task,       \* ND: state of the receive loop and of the three periodic tasks
    ndEvt,      \* ND: history, the last handler or tick and what it published
    missed,     \* ND: history, liveness ticks since the budget of a neighbour was last set
    events,     \* ND: number of handler invocations and ticks so far
    walks       \* ND: the iterations over topo[me] that are suspended at an await

spVars == <<graph, source, order, heapRes, scanRes, phase>>

floodVars == <<topology, seen_ids, net, dups, pubCount, pubInv, addCount, lastEvt, injected>>

nodeVars == <<topo, rowOrder, nochange_count, task, ndEvt, missed, events, walks>>

vars == <<spVars, floodVars, nodeVars>>

(***************************************************************************)
(* Bounds                                                                  *)
(***************************************************************************)
\* The node universe N1..N4.
Nodes == {1, 2, 3, 4}

\* Edge weights are drawn from 1..MaxWeight.
MaxWeight == 3

Weights == 1..MaxWeight

\* float("inf")
Inf == -1

NoRes == [dist |-> <<>>, prev |-> <<>>, nh |-> <<>>, tables |-> <<>>]

(***************************************************************************)
(* Generic helpers                                                         *)
(***************************************************************************)
Min(S) == CHOOSE x \in S : \A y \in S : x <= y

Max(S) == CHOOSE x \in S : \A y \in S : x >= y

\* a < b on numbers extended with float("inf")
Less(a, b) == a # Inf /\ (b = Inf \/ a < b)

\* a + w on numbers extended with float("inf")
Plus(a, w) == IF a = Inf THEN Inf ELSE a + w

(***************************************************************************)
(* topology.py                                                             *)
(***************************************************************************)
\* The undirected edges a topology text can name, as pairs u < v.
EdgeSlots == {e \in Nodes \X Nodes : e[1] < e[2]}

\* The weight the text gives to the edge {u,v}; 0 when the text has no such edge.
EdgeW(wt, u, v) == IF u < v THEN wt[<<u, v>>] ELSE IF v < u THEN wt[<<v, u>>] ELSE 0

\* parse_topology: g[a][b] = w and g[b][a] = w for every edge of the text; a
\* node is a key only when some edge names it.
parse_topology(wt) ==
    LET keys == {u \in Nodes : \E v \in Nodes : EdgeW(wt, u, v) > 0}
    IN  [u \in keys |-> [v \in {x \in Nodes : EdgeW(wt, u, x) > 0} |-> EdgeW(wt, u, v)]]

\* neighbors_of: graph.get(node, {})
neighbors_of(g, node) == IF node \in DOMAIN g THEN g[node] ELSE <<>>

(***************************************************************************)
(* dijkstra.py                                                             *)
(***************************************************************************)
\* A mutant of HeapTop: pops the entry with the greatest distance.
HeapTopWorst(pq) ==
    CHOOSE t \in pq : \A s \in pq : t[1] > s[1] \/ (t[1] = s[1] /\ t[2] <= s[2])

\* heapq.heappop on tuples (d, u): the least d, then the least node.
HeapTop(pq) ==
    CHOOSE t \in pq : \A s \in pq : t[1] < s[1] \/ (t[1] = s[1] /\ t[2] <= s[2])

\* A mutant of HeapImproved: every neighbour of u is taken as improved.
HeapImprovedAny(g, dist, d, u) == DOMAIN g[u]

\* The neighbours v of u that the inner loop improves: alt = d + w < dist[v].
HeapImproved(g, dist, d, u) ==
    {v \in DOMAIN g[u] : Less(d + g[u][v], dist[v])}

\* The while loop of dijkstra: pq is the heap (no tuple is pushed twice, since
\* a push needs alt < dist[v]), st = [dist, prev, visited].
RECURSIVE DijkstraLoop(_, _, _)
DijkstraLoop(g, pq, st) ==
    IF pq = {} THEN [dist |-> st.dist, prev |-> st.prev]
    ELSE LET t    == HeapTop(pq)
             d    == t[1]
             u    == t[2]
             rest == pq \ {t}
         IN  IF u \in st.visited THEN DijkstraLoop(g, rest, st)
             ELSE LET imp == HeapImproved(g, st.dist, d, u)
                      nd  == [x \in DOMAIN st.dist \cup imp |->
                                 IF x \in imp THEN d + g[u][x] ELSE st.dist[x]]
                      np  == [x \in DOMAIN st.prev \cup imp |->
                                 IF x \in imp THEN u ELSE st.prev[x]]
                      npq == rest \cup {<<d + g[u][v], v>> : v \in imp}
                  IN  DijkstraLoop(g, npq,
                          [dist |-> nd, prev |-> np, visited |-> st.visited \cup {u}])

\* dijkstra(graph, source) of dijkstra.py
dijkstra(g, src) ==
    DijkstraLoop(g, {<<0, src>>},
        [dist    |-> [v \in DOMAIN g \cup {src} |-> IF v = src THEN 0 ELSE Inf],
         prev    |-> <<>>,
         visited |-> {}])

\* The walk dest -> ... of build_next_hop: stops at the node whose predecessor
\* is source, or at a node without predecessor.
RECURSIVE WalkBack(_, _, _)
WalkBack(prev, src, cur) ==
    IF cur \in DOMAIN prev /\ prev[cur] # src
    THEN WalkBack(prev, src, prev[cur])
    ELSE cur

\* A mutant of build_next_hop: records the predecessor of dest (the last hop
\* of the path) instead of the first hop after source.
build_next_hop_last(src, prev) ==
    [dest \in DOMAIN prev \ {src} |-> prev[dest]]

\* build_next_hop(source, prev) of dijkstra.py
build_next_hop(src, prev) ==
    LET ends  == [dest \in DOMAIN prev |-> WalkBack(prev, src, dest)]
        found == {dest \in DOMAIN prev :
                     /\ dest # src
                     /\ ends[dest] \in DOMAIN prev
                     /\ prev[ends[dest]] = src}
    IN  [dest \in found |-> ends[dest]]

\* all_pairs_next_hops(graph)
all_pairs_next_hops(g) ==
    [node \in DOMAIN g |-> build_next_hop(node, dijkstra(g, node).prev)]

(***************************************************************************)
(* simulator.py: dijkstra and build_next_hop                               *)
(***************************************************************************)
\* The node the scan "for k, d in dist.items()" selects: the first key, in the
\* dict's order ord, among the unvisited keys of least finite distance; 0 when
\* there is none (u is None).
\* A mutant of ScanPick: the first reached unvisited node in dict order is
\* taken, whatever its distance.
ScanPickFirst(dist, visited, ord) ==
    LET cand == {k \in DOMAIN dist : k \notin visited /\ dist[k] # Inf}
    IN  IF cand = {} THEN 0
        ELSE ord[Min({i \in 1..Len(ord) : ord[i] \in cand})]

ScanPick(dist, visited, ord) ==
    LET cand == {k \in DOMAIN dist : k \notin visited /\ dist[k] # Inf}
    IN  IF cand = {} THEN 0
        ELSE LET best == Min({dist[k] : k \in cand})
                 pos  == Min({i \in 1..Len(ord) : ord[i] \in cand /\ dist[ord[i]] = best})
             IN  ord[pos]

\* dist.get(v, float("inf"))
DistGet(dist, v) == IF v \in DOMAIN dist THEN dist[v] ELSE Inf

RECURSIVE ScanLoop(_, _, _)
ScanLoop(g, ord, st) ==
    LET u == ScanPick(st.dist, st.visited, ord)
    IN  IF u = 0 THEN [dist |-> st.dist, prev |-> st.prev]
        ELSE LET nb  == neighbors_of(g, u)
                 imp == {v \in DOMAIN nb : Less(st.dist[u] + nb[v], DistGet(st.dist, v))}
                 nd  == [x \in DOMAIN st.dist \cup imp |->
                            IF x \in imp THEN st.dist[u] + nb[x] ELSE st.dist[x]]
                 np  == [x \in DOMAIN st.prev \cup imp |->
                            IF x \in imp THEN u ELSE st.prev[x]]
             IN  ScanLoop(g, ord,
                     [dist |-> nd, prev |-> np, visited |-> st.visited \cup {u}])

\* dijkstra(graph, src) of simulator.py; ord is the order of the dist dict.
sim_dijkstra(g, src, ord) ==
    ScanLoop(g, ord,
        [dist    |-> [v \in DOMAIN g \cup {src} |-> IF v = src THEN 0 ELSE Inf],
         prev    |-> <<>>,
         visited |-> {}])

\* while prev.get(cur) and prev[cur] != src: cur = prev[cur]
RECURSIVE SimWalkBack(_, _, _)
SimWalkBack(prev, src, cur) ==
    IF cur \in DOMAIN prev /\ prev[cur] # src
    THEN SimWalkBack(prev, src, prev[cur])
    ELSE cur

\* build_next_hop(src, prev) of simulator.py
sim_build_next_hop(src, prev) ==
    LET ends  == [dst \in DOMAIN prev |-> SimWalkBack(prev, src, dst)]
        found == {dst \in DOMAIN prev :
                     ends[dst] \in DOMAIN prev /\ prev[ends[dst]] = src}
    IN  [dst \in found |-> ends[dst]]

(***************************************************************************)
(* flooding.py                                                             *)
(***************************************************************************)
\* The message ids in use.
MsgIds == {"m1"}

\* The largest initial ttl of a flooded message.
MaxTTL == 4

\* The duplicate deliveries the transport may make in one run.
MaxDup == 1

\* None
None == 0

\* The transport address "sec30.<group>.nodo<k>" of node N<k>.
address_of(node) == <<"addr", node>>

\* router.listen_channel
listen_channel(me) == address_of(me)

\* node_of: "sec30.<group>.nodo3" -> "N3"; anything else is returned as it is.
node_of(address) ==
    IF address \in {address_of(k) : k \in Nodes} THEN address[2] ELSE address

\* A dict is modelled by the sequence of its <<key, value>> items, in
\* insertion order.
DictHas(d, k) == \E i \in 1..Len(d) : d[i][1] = k

\* d.get(k, default)
DictGet(d, k, default) ==
    IF DictHas(d, k) THEN d[CHOOSE i \in 1..Len(d) : d[i][1] = k][2] ELSE default

\* d[k] = v: replaces the value in place, or appends a new key.
DictSet(d, k, v) ==
    IF DictHas(d, k)
    THEN [i \in 1..Len(d) |-> IF d[i][1] = k THEN <<k, v>> ELSE d[i]]
    ELSE Append(d, <<k, v>>)

\* d.update(item) for a single-key dict item = {k: v}
DictUpdate(d, item) ==
    LET k == CHOOSE x \in DOMAIN item : TRUE
    IN  DictSet(d, k, item[k])

\* headers_to_dict: folds the list of single-key dicts left to right, a later
\* item overriding an earlier one with the same key.
RECURSIVE HeadersFold(_, _, _)
HeadersFold(hlist, i, d) ==
    IF i > Len(hlist) THEN d
    ELSE HeadersFold(hlist, i + 1, DictUpdate(d, hlist[i]))

headers_to_dict(hlist) == HeadersFold(hlist, 1, <<>>)

\* dict_to_headers: [{k: v} for k, v in d.items()]
dict_to_headers(d) == [i \in 1..Len(d) |-> (d[i][1] :> d[i][2])]

\* path of handle_message: the path header, seeded from `from` when empty,
\* with this node appended unless it is already last.
FloodPath(me, msg, h) ==
    LET p0 == DictGet(h, "path", <<>>)
        p1 == IF p0 = <<>> THEN <<node_of(msg.from)>> ELSE p0
    IN  IF p1[Len(p1)] # me THEN Append(p1, me) ELSE p1

\* fanout of handle_message: the neighbours of this node except last_via.
FloodFanout(g, me, h) ==
    {nb \in DOMAIN g[me] : nb # DictGet(h, "via", None)}

\* A mutant of FloodCopy: the copy keeps the ttl it was received with.
FloodCopySameTtl(g, me, msg, h, nb) ==
    LET cost == DictGet(h, "cost", 0) + g[me][nb]
        hh   == DictSet(DictSet(DictSet(h, "via", me),
                                "path", FloodPath(me, msg, h)),
                        "cost", cost)
    IN  [msg EXCEPT !.headers = dict_to_headers(hh)]

\* The copy handle_message publishes to neighbour nb:
\* hh.update({"via": router.me, "path": path, "cost": cost}).
FloodCopy(g, me, msg, h, nb) ==
    LET cost == DictGet(h, "cost", 0) + g[me][nb]
        hh   == DictSet(DictSet(DictSet(h, "via", me),
                                "path", FloodPath(me, msg, h)),
                        "cost", cost)
    IN  [msg EXCEPT !.ttl = msg.ttl - 1, !.headers = dict_to_headers(hh)]

\* A mutant of FloodIsDuplicate: the seen-id check is missing.
FloodNeverDuplicate(seen, msg) == FALSE

\* Whether handle_message discards msg as a duplicate.
FloodIsDuplicate(seen, msg) == msg.message_id \in seen

\* Whether this node is the addressed destination of msg.
FloodIsDestination(me, msg) ==
    node_of(msg.to) = me \/ msg.to = listen_channel(me)

\* A mutant of FloodTtlSpent: drops the copy one hop early.
FloodTtlSpentEarly(msg) == msg.ttl - 2 <= 0

\* fwd["ttl"] = msg.get("ttl", 0) - 1; if fwd["ttl"] <= 0: continue
FloodTtlSpent(msg) == msg.ttl - 1 <= 0

\* The set of [chan, msg] that FloodingStrategy.handle_message publishes when
\* router `me`, with seen-id set `seen`, handles msg.
FloodPublishes(g, me, seen, msg) ==
    IF FloodIsDuplicate(seen, msg) THEN {}
    ELSE IF FloodIsDestination(me, msg) THEN {}
    ELSE IF FloodTtlSpent(msg) THEN {}
    ELSE LET h == headers_to_dict(msg.headers)
         IN  {[chan |-> nb, msg |-> FloodCopy(g, me, msg, h, nb)] :
                 nb \in FloodFanout(g, me, h)}

\* A mutant of FloodSeen: the id is not recorded.
FloodSeenForgets(seen, msg) == seen

\* router.seen_ids after handle_message.
FloodSeen(seen, msg) == seen \cup {msg.message_id}

NoEvt == [node |-> None, msg |-> <<>>, sent |-> {}, dup |-> FALSE]

\* The flooding variables when no flooding run is modelled.
FloodIdle ==
    /\ topology = <<>>
    /\ seen_ids = <<>>
    /\ net = {}
    /\ dups = 0
    /\ pubCount = <<>>
    /\ pubInv = <<>>
    /\ addCount = <<>>
    /\ lastEvt = NoEvt
    /\ injected = <<>>

(***************************************************************************)
(* simulator.py: class Node                                                *)
(***************************************************************************)
\* Node.me: the node under study is N1.
Me == Min(Nodes)

\* The nodes that appear in the messages the node receives: N1, N2, N3.
NdNodes == {n \in Nodes : n < Max(Nodes)}

\* hello_misses: the liveness budget of a direct neighbour.
HELLO_MISSES == 2

\* remote_age: the age given to an adjacency learnt from a topology message.
REMOTE_AGE == 2

\* stable_nochange: the number of unchanged topology messages that triggers a
\* recomputation.
STABLE_NOCHANGE == 2

\* The number of handler invocations and ticks in one run.
MaxEvents == 3

\* json.dumps of the integers 1..5, as they travel in the hops field.
Digits == <<"1", "2", "3", "4", "5">>

\* The hops fields an inbound message may carry: a number, or text that is
\* not a number.
HopsTokens == {"1", "2", "abc"}

\* Whether int(raw) succeeds.
IsNumeric(raw) == \E i \in 1..Len(Digits) : Digits[i] = raw

\* int(raw), for a numeric raw.
IntOf(raw) == CHOOSE i \in 1..Len(Digits) : Digits[i] = raw

\* make_message(from_addr, to_addr, weight)
make_message(from_addr, to_addr, weight) ==
    [type |-> "message", from |-> from_addr, to |-> to_addr, hops |-> Digits[weight]]

\* make_hello(from_addr, to_addr, weight)
make_hello(from_addr, to_addr, weight) ==
    [type |-> "hello", from |-> from_addr, to |-> to_addr, hops |-> Digits[weight]]

\* address_for_dest(node, my_group): the channel of the destination node.
address_for_dest(node) == address_of(node)

\* topo.get(u, {})
Row(t, u) == IF u \in DOMAIN t THEN t[u] ELSE <<>>

\* meta.get(k, default) on a meta dict, a function from a subset of
\* {"weight", "time", "age"}.
MetaGet(meta, k, default) == IF k \in DOMAIN meta THEN meta[k] ELSE default

\* meta[k] = v
MetaSet(meta, k, v) == [x \in DOMAIN meta \cup {k} |-> IF x = k THEN v ELSE meta[x]]

\* t[u][v] = meta, creating the row of u when missing.
TopoPut(t, u, v, meta) ==
    [x \in DOMAIN t \cup {u} |->
        IF x = u
        THEN [y \in DOMAIN Row(t, u) \cup {v} |-> IF y = v THEN meta ELSE t[u][y]]
        ELSE t[x]]

\* t.get(u, {}).pop(v, None)
TopoPop(t, u, v) ==
    [x \in DOMAIN t |->
        IF x = u THEN [y \in DOMAIN t[u] \ {v} |-> t[u][y]] ELSE t[x]]

\* topo[u].get(v, {}).get("weight"): the weight stored for u -> v, None when
\* there is no such entry.
StoredWeight(t, u, v) ==
    IF v \in DOMAIN Row(t, u) THEN MetaGet(t[u][v], "weight", None) ELSE None

\* _ensure_node: topo.setdefault(u, {})
EnsureNode(t, u) == [x \in DOMAIN t \cup {u} |-> IF x \in DOMAIN t THEN t[x] ELSE <<>>]

\* The order of the keys of topo[me] after a key is inserted.
OrderAdd(ord, v) ==
    IF \E i \in 1..Len(ord) : ord[i] = v THEN ord ELSE Append(ord, v)

\* Node.__init__: the direct adjacencies of the configuration cfg, with the
\* timer on the side me -> neighbour only.
InitTopo(cfg) ==
    [u \in {Me} \cup DOMAIN cfg |->
        IF u = Me
        THEN [v \in DOMAIN cfg |-> [weight |-> cfg[v], time |-> HELLO_MISSES]]
        ELSE (Me :> [weight |-> cfg[u]])]

\* meta.get("time", 0) > 0
LiveTime(meta) == MetaGet(meta, "time", 0) > 0

\* _live_neighbors: the direct neighbours whose time is > 0.
live_neighbors(t) == {v \in DOMAIN Row(t, Me) : LiveTime(t[Me][v])}

\* A mutant of GraphKeeps: an entry of the node's own row without a time is
\* taken as alive.
GraphKeepsLenient(t, u, v) ==
    /\ "weight" \in DOMAIN t[u][v]
    /\ (u = Me /\ v \in DOMAIN t[Me]) => MetaGet(t[Me][v], "time", 1) > 0
    /\ MetaGet(t[u][v], "age", REMOTE_AGE) > 0

\* Whether _get_graph_for_dijkstra keeps the entry t[u][v].
GraphKeeps(t, u, v) ==
    /\ "weight" \in DOMAIN t[u][v]
    /\ (u = Me /\ v \in DOMAIN t[Me]) => MetaGet(t[Me][v], "time", 0) > 0
    /\ MetaGet(t[u][v], "age", REMOTE_AGE) > 0

\* _get_graph_for_dijkstra: the graph u -> v : weight of the entries in force.
get_graph_for_dijkstra(t) ==
    LET keys == {u \in DOMAIN t : \E v \in DOMAIN t[u] : GraphKeeps(t, u, v)}
    IN  [u \in keys |->
            [v \in {x \in DOMAIN t[u] : GraphKeeps(t, u, x)} |-> t[u][v].weight]]

\* Whether _run_and_print_dijkstra computes a table: self.me is in the graph.
RunsDijkstra(t) == Me \in DOMAIN get_graph_for_dijkstra(t)

\* _flood_my_adjacencies: every live direct adjacency, to every live neighbour.
flood_my_adjacencies(t) ==
    {[chan |-> address_for_dest(out),
      msg  |-> make_message(address_of(Me), address_for_dest(nbr), t[Me][nbr].weight)] :
        nbr \in live_neighbors(t), out \in live_neighbors(t)}

\* _send_hellos: one hello to every live direct neighbour.
send_hellos(t) ==
    {[chan |-> address_for_dest(nbr),
      msg  |-> make_hello(address_of(Me), address_for_dest(nbr), t[Me][nbr].weight)] :
        nbr \in live_neighbors(t)}

\* A mutant of HelloEffect: a hello from a known neighbour does not reset the
\* liveness budget.
HelloEffectKeepsTime(t, ord, frm, w) ==
    IF frm \notin DOMAIN Row(t, Me)
    THEN LET t1 == TopoPut(t, Me, frm, [weight |-> w, time |-> HELLO_MISSES])
             t2 == TopoPut(t1, frm, Me, [weight |-> w])
         IN  [topo |-> t2, order |-> OrderAdd(ord, frm), sent |-> flood_my_adjacencies(t2)]
    ELSE LET meta    == t[Me][frm]
             changed == ~("weight" \in DOMAIN meta /\ meta.weight = w)
             t1      == TopoPut(t, Me, frm, MetaSet(meta, "weight", w))
             back    == IF Me \in DOMAIN Row(t1, frm) THEN t1[frm][Me] ELSE <<>>
             t2      == TopoPut(t1, frm, Me, MetaSet(back, "weight", w))
         IN  [topo |-> t2, order |-> ord,
              sent |-> IF changed THEN flood_my_adjacencies(t2) ELSE {}]

\* The outcome of handle_hello once int(hops) = w has succeeded and the hello
\* is addressed to this node: the new table, the new order of topo[me] and
\* the publishes.
HelloEffect(t, ord, frm, w) ==
    IF frm \notin DOMAIN Row(t, Me)
    THEN LET t1 == TopoPut(t, Me, frm, [weight |-> w, time |-> HELLO_MISSES])
             t2 == TopoPut(t1, frm, Me, [weight |-> w])
         IN  [topo |-> t2, order |-> OrderAdd(ord, frm), sent |-> flood_my_adjacencies(t2)]
    ELSE LET meta    == t[Me][frm]
             changed == ~("weight" \in DOMAIN meta /\ meta.weight = w)
             t1      == TopoPut(t, Me, frm,
                                MetaSet(MetaSet(meta, "weight", w), "time", HELLO_MISSES))
             back    == IF Me \in DOMAIN Row(t1, frm) THEN t1[frm][Me] ELSE <<>>
             t2      == TopoPut(t1, frm, Me, MetaSet(back, "weight", w))
         IN  [topo |-> t2, order |-> ord,
              sent |-> IF changed THEN flood_my_adjacencies(t2) ELSE {}]

\* One direction of handle_message: store (u -> v) with weight w and a fresh
\* age; an entry of another weight is replaced, an entry of the same weight
\* only has its age refreshed.
StoreEdge(t, u, v, w) ==
    LET cur == IF v \in DOMAIN t[u] THEN t[u][v] ELSE <<>>
    IN  IF ~("weight" \in DOMAIN cur /\ cur.weight = w)
        THEN [topo |-> TopoPut(t, u, v, [weight |-> w, age |-> REMOTE_AGE]), changed |-> TRUE]
        ELSE [topo |-> TopoPut(t, u, v, MetaSet(cur, "age", REMOTE_AGE)), changed |-> FALSE]

\* The table and the `changed` flag of handle_message for the adjacency u-v:w.
MessageEffect(t, u, v, w) ==
    LET t0 == EnsureNode(EnsureNode(t, u), v)
        a  == StoreEdge(t0, u, v, w)
        b  == StoreEdge(a.topo, v, u, w)
    IN  [topo |-> b.topo, changed |-> a.changed \/ b.changed]

\* The order of the keys of topo[me] after handle_message stored u-v.
MessageOrder(ord, u, v) ==
    LET o1 == IF u = Me THEN OrderAdd(ord, v) ELSE ord
    IN  IF v = Me THEN OrderAdd(o1, u) ELSE o1

\* A mutant of ForwardIfChanged: a changing message leaves the counter alone.
ForwardNoReset(t, cnt, msg, changed) ==
    IF ~changed
    THEN IF cnt + 1 >= STABLE_NOCHANGE
         THEN [count |-> 0, sent |-> {}, spf |-> TRUE]
         ELSE [count |-> cnt + 1, sent |-> {}, spf |-> FALSE]
    ELSE [count |-> cnt,
          sent  |-> {[chan |-> address_for_dest(out), msg |-> msg] : out \in live_neighbors(t)},
          spf   |-> FALSE]

\* A mutant of ForwardIfChanged: an unchanged message is forwarded too.
ForwardAlways(t, cnt, msg, changed) ==
    [count |-> IF changed \/ cnt + 1 >= STABLE_NOCHANGE THEN 0 ELSE cnt + 1,
     sent  |-> {[chan |-> address_for_dest(out), msg |-> msg] : out \in live_neighbors(t)},
     spf   |-> ~changed /\ cnt + 1 >= STABLE_NOCHANGE]

\* _forward_message_if_changed: the new counter, the publishes and whether
\* _run_and_print_dijkstra is called.
ForwardIfChanged(t, cnt, msg, changed) ==
    IF ~changed
    THEN IF cnt + 1 >= STABLE_NOCHANGE
         THEN [count |-> 0, sent |-> {}, spf |-> TRUE]
         ELSE [count |-> cnt + 1, sent |-> {}, spf |-> FALSE]
    ELSE [count |-> 0,
          sent  |-> {[chan |-> address_for_dest(out), msg |-> msg] : out \in live_neighbors(t)},
          spf   |-> FALSE]

\* The loop of _neighbor_timer_tick over list(topo[me].items()), from position
\* i of the row: decrements every positive time and collects the dead
\* neighbours; meta["time"] raises KeyError on an entry without a time.
RECURSIVE TimerScan(_, _, _, _)
TimerScan(t, ord, i, dead) ==
    IF i > Len(ord) THEN [topo |-> t, dead |-> dead, crashed |-> FALSE]
    ELSE LET nbr  == ord[i]
             meta == t[Me][nbr]
             tm   == MetaGet(meta, "time", 0)
             m1   == IF tm > 0 THEN MetaSet(meta, "time", tm - 1) ELSE meta
             t1   == TopoPut(t, Me, nbr, m1)
         IN  IF "time" \notin DOMAIN m1
             THEN [topo |-> t1, dead |-> dead, crashed |-> TRUE]
             ELSE TimerScan(t1, ord, i + 1,
                            IF m1.time <= 0 THEN dead \cup {nbr} ELSE dead)

\* Removal of the dead neighbours in both directions.
RECURSIVE RemoveDead(_, _)
RemoveDead(t, dead) ==
    IF dead = {} THEN t
    ELSE LET nbr == CHOOSE x \in dead : TRUE
             t1  == TopoPop(t, Me, nbr)
             t2  == IF nbr \in DOMAIN t1 THEN TopoPop(t1, nbr, Me) ELSE t1
         IN  RemoveDead(t2, dead \ {nbr})

\* A mutant of RemoteAging: an adjacency is deleted one tick late.
RemoteAgingLate(t) ==
    LET aged(u, v)    == u # Me /\ v # Me /\ "age" \in DOMAIN t[u][v]
        expired(u, v) == aged(u, v) /\ t[u][v].age - 1 < 0
    IN  [u \in DOMAIN t |->
            [v \in {x \in DOMAIN t[u] : ~expired(u, x)} |->
                IF aged(u, v) THEN MetaSet(t[u][v], "age", t[u][v].age - 1) ELSE t[u][v]]]

\* One pass of _remote_aging_tick: every adjacency with an age and without
\* this node as an endpoint ages by one and is deleted at 0.
RemoteAging(t) ==
    LET aged(u, v)    == u # Me /\ v # Me /\ "age" \in DOMAIN t[u][v]
        expired(u, v) == aged(u, v) /\ t[u][v].age - 1 <= 0
    IN  [u \in DOMAIN t |->
            [v \in {x \in DOMAIN t[u] : ~expired(u, x)} |->
                IF aged(u, v) THEN MetaSet(t[u][v], "age", t[u][v].age - 1) ELSE t[u][v]]]

\* The tasks that iterate over topo[me].items() with an await inside the
\* loop: the receive loop and the liveness task through _flood_my_adjacencies,
\* the hello task through _send_hellos.
Walkers == {"recv", "hello", "timer"}

\* No iteration in progress.
NoWalk == [active |-> FALSE, kind |-> "none", pos |-> 0, used |-> 0, left |-> 0,
           live |-> {}, torn |-> FALSE]

\* The dict iterator created by topo[me].items(): pos entries consumed, the
\* size of the dict at creation (used), the entries it still expects (left);
\* live is the list _flood_my_adjacencies took from _live_neighbors before
\* the loop; torn records that a key was inserted into or deleted from the
\* row while the iteration was suspended.
NewWalk(kind, t, ord) ==
    [active |-> TRUE, kind |-> kind, pos |-> 0, used |-> Len(ord), left |-> Len(ord),
     live |-> IF kind = "flood" THEN live_neighbors(t) ELSE {}, torn |-> FALSE]

\* What the body of the loop publishes for the entry nbr: _send_hellos one
\* hello to nbr, _flood_my_adjacencies the adjacency me-nbr to every
\* neighbour of the list live.
WalkPublishes(t, w, nbr) ==
    IF w.kind = "hellos"
    THEN {[chan |-> address_for_dest(nbr),
           msg  |-> make_hello(address_of(Me), address_for_dest(nbr), t[Me][nbr].weight)]}
    ELSE {[chan |-> address_for_dest(out),
           msg  |-> make_message(address_of(Me), address_for_dest(nbr), t[Me][nbr].weight)] :
             out \in w.live}

\* The iteration from the state w of its iterator up to its next await:
\* next() raises RuntimeError when the size of the dict is not the size at
\* creation, or when it finds an entry after the expected ones are consumed;
\* an entry whose time is <= 0 is skipped without an await, and so is every
\* entry when the list live is empty. The result says how the run ended
\* ("await", "done", "error"), the iterator, and the publishes awaited.
RECURSIVE WalkAdvance(_, _, _)
WalkAdvance(t, ord, w) ==
    IF Len(ord) # w.used THEN [end |-> "error", walk |-> NoWalk, sent |-> {}]
    ELSE IF w.pos >= Len(ord) THEN [end |-> "done", walk |-> NoWalk, sent |-> {}]
    ELSE IF w.left = 0 THEN [end |-> "error", walk |-> NoWalk, sent |-> {}]
    ELSE LET nbr  == ord[w.pos + 1]
             w1   == [w EXCEPT !.pos = w.pos + 1, !.left = w.left - 1, !.torn = FALSE]
             sent == IF LiveTime(t[Me][nbr]) THEN WalkPublishes(t, w, nbr) ELSE {}
         IN  IF sent = {} THEN WalkAdvance(t, ord, w1)
             ELSE [end |-> "await", walk |-> w1, sent |-> sent]

\* The suspended iterators after another task has made the row go from ord
\* to ord2: an entry deleted at or before the position of an iterator moves
\* the position back, and a change of the keys is recorded in torn.
WalksAfter(ws, ord, ord2) ==
    LET gone(i) == \A j \in 1..Len(ord2) : ord2[j] # ord[i]
    IN  [k \in DOMAIN ws |->
            IF ws[k].active /\ ord2 # ord
            THEN [ws[k] EXCEPT
                    !.pos  = @ - Cardinality({i \in 1..ws[k].pos : gone(i)}),
                    !.torn = TRUE]
            ELSE ws[k]]

NoNdEvt == [kind |-> "none", msg |-> <<>>, sent |-> {}, spf |-> FALSE, ran |-> FALSE]

\* The node variables when no node run is modelled.
NodeIdle ==
    /\ topo = <<>>
    /\ rowOrder = <<>>
    /\ nochange_count = 0
    /\ task = <<>>
    /\ ndEvt = NoNdEvt
    /\ missed = <<>>
    /\ events = 0
    /\ walks = <<>>

(***************************************************************************)
(* Specification SpSpec: the shortest-path functions on every topology     *)
(***************************************************************************)
\* The shortest-path variables when no shortest-path run is modelled.
SpIdle ==
    /\ graph = <<>>
    /\ source = None
    /\ order = <<>>
    /\ heapRes = NoRes
    /\ scanRes = NoRes
    /\ phase = "idle"

\* The orders in which the dist dict of simulator.dijkstra may list the nodes.
Ascending == <<1, 2, 3, 4>>

Descending == <<4, 3, 2, 1>>

Orders == {Ascending, Descending}

SpInit ==
    /\ \E wt \in [EdgeSlots -> 0..MaxWeight] :
          /\ \E e \in EdgeSlots : wt[e] > 0
          /\ graph = parse_topology(wt)
    /\ source \in DOMAIN graph
    /\ order = <<>>
    /\ heapRes = NoRes
    /\ scanRes = NoRes
    /\ phase = "input"
    /\ FloodIdle
    /\ NodeIdle

\* dijkstra.py: dijkstra, build_next_hop and all_pairs_next_hops on the input.
RunDijkstra ==
    /\ phase = "input"
    /\ LET r == dijkstra(graph, source)
       IN  heapRes' = [dist   |-> r.dist,
                       prev   |-> r.prev,
                       nh     |-> build_next_hop(source, r.prev),
                       tables |-> all_pairs_next_hops(graph)]
    /\ phase' = "heap"
    /\ UNCHANGED <<graph, source, order, scanRes, floodVars, nodeVars>>

\* simulator.py: dijkstra and build_next_hop on the same input.
RunSimDijkstra ==
    /\ phase = "heap"
    /\ \E ord \in Orders :
          /\ order' = ord
          /\ LET r == sim_dijkstra(graph, source, ord)
             IN  scanRes' = [dist   |-> r.dist,
                             prev   |-> r.prev,
                             nh     |-> sim_build_next_hop(source, r.prev),
                             tables |-> <<>>]
    /\ phase' = "done"
    /\ UNCHANGED <<graph, source, heapRes, floodVars, nodeVars>>

SpNext == RunDijkstra \/ RunSimDijkstra

SpSpec == SpInit /\ [][SpNext]_vars

(***************************************************************************)
(* Specification FloodSpec: one flooded message on every topology          *)
(***************************************************************************)
\* The cost the topology file gives to the edge e when it lists it.
LinkCost(e) == e[1] + e[2]

\* The router on whose channel the message is first published. Every labelled
\* topology over Nodes is drawn, so taking the least router as origin covers
\* every pair of a topology and an origin up to renaming the nodes.
FloodOrigins(g) == {Min(DOMAIN g)}

\* The node named by the `from` address of the first message: the origin
\* itself, or the greatest router (a neighbour of the origin in some
\* topologies, a distant node in others).
FloodSenders(g) == {Min(DOMAIN g), Max(DOMAIN g)}

\* Before the run: no topology is loaded and nothing is in flight.
FloodInit ==
    /\ topology = <<>>
    /\ injected = <<>>
    /\ net = {}
    /\ seen_ids = [n \in Nodes |-> {}]
    /\ dups = 0
    /\ pubCount = [n \in Nodes |-> 0]
    /\ pubInv = [n \in Nodes |-> 0]
    /\ addCount = [n \in Nodes |-> 0]
    /\ lastEvt = NoEvt
    /\ SpIdle
    /\ NodeIdle

\* The start of a flooding run: every router loads the same topology, and a
\* sender publishes one message, without headers, on the channel of a router.
\* ttl = 0 also stands for a message without a ttl, which msg.get("ttl", 0)
\* reads as 0.
FloodStart ==
    /\ injected = <<>>
    /\ \E wt \in [EdgeSlots -> BOOLEAN] :
          /\ \E e \in EdgeSlots : wt[e]
          /\ topology' = parse_topology([e \in EdgeSlots |-> IF wt[e] THEN LinkCost(e) ELSE 0])
    /\ \E origin \in FloodOrigins(topology'), frm \in FloodSenders(topology'),
          dst \in Nodes, ttl \in 0..MaxTTL, mid \in MsgIds :
          injected' = [chan |-> origin,
                       msg  |-> [message_id |-> mid,
                                 from       |-> address_of(frm),
                                 to         |-> address_of(dst),
                                 ttl        |-> ttl,
                                 headers    |-> <<>>]]
    /\ net' = {injected'}
    /\ UNCHANGED <<seen_ids, dups, pubCount, pubInv, addCount, lastEvt, spVars, nodeVars>>

\* FloodingStrategy.handle_message(router, msg) on the router listening on
\* d.chan; every router.publish(nb, fwd) hands a delivery to the transport.
FloodHandle(d, sent) ==
    /\ sent = FloodPublishes(topology, d.chan, seen_ids[d.chan], d.msg)
    /\ seen_ids' = [seen_ids EXCEPT ![d.chan] = FloodSeen(@, d.msg)]
    /\ pubCount' = [pubCount EXCEPT ![d.chan] = @ + Cardinality(sent)]
    /\ pubInv' = [pubInv EXCEPT ![d.chan] = IF sent = {} THEN @ ELSE @ + 1]
    /\ addCount' = [addCount EXCEPT ![d.chan] =
                        IF FloodIsDuplicate(seen_ids[d.chan], d.msg) THEN @ ELSE @ + 1]
    /\ lastEvt' = [node |-> d.chan, msg |-> d.msg, sent |-> sent,
                   dup  |-> d.msg.message_id \in seen_ids[d.chan]]
    /\ UNCHANGED <<topology, injected, spVars, nodeVars>>

\* The transport delivers d for the last time.
FloodDeliver ==
    \E d \in net :
        \E sent \in {FloodPublishes(topology, d.chan, seen_ids[d.chan], d.msg)} :
            /\ FloodHandle(d, sent)
            /\ net' = (net \ {d}) \cup sent
            /\ dups' = dups

\* The transport delivers d and will deliver it again (at-least-once).
FloodRedeliver ==
    \E d \in net :
        \E sent \in {FloodPublishes(topology, d.chan, seen_ids[d.chan], d.msg)} :
            /\ dups < MaxDup
            /\ FloodHandle(d, sent)
            /\ net' = net \cup sent
            /\ dups' = dups + 1

FloodNext == FloodStart \/ FloodDeliver \/ FloodRedeliver

FloodSpec == FloodInit /\ [][FloodNext]_vars

(***************************************************************************)
(* Specification NodeSpec: one node, its receive loop and periodic tasks   *)
(***************************************************************************)
\* The neighbour configurations (--neighbors) the node is started with.
NdConfigs == {(2 :> 1), (2 :> 1) @@ (3 :> 2)}

Tasks == {"recv", "hello", "timer", "aging"}

\* The state after Node.__init__ and the start of run().
NodeInit ==
    /\ \E cfg \in NdConfigs :
          /\ topo = InitTopo(cfg)
          /\ rowOrder = [i \in 1..Cardinality(DOMAIN cfg) |->
                            CHOOSE v \in DOMAIN cfg :
                                Cardinality({x \in DOMAIN cfg : x <= v}) = i]
          /\ missed = [v \in DOMAIN cfg |-> 0]
    /\ nochange_count = 0
    /\ task = [k \in Tasks |-> "running"]
    /\ ndEvt = NoNdEvt
    /\ events = 0
    /\ walks = [k \in Walkers |-> NoWalk]
    /\ SpIdle
    /\ FloodIdle

\* The process is alive: an exception that leaves run() ends it and cancels
\* its tasks.
ProcessAlive == task["recv"] = "running" /\ events < MaxEvents

\* One step of the node: spf says that _run_and_print_dijkstra was called, ran
\* that it found this node in the graph and computed a table.
Step(kind, msg, sent, spf) ==
    /\ ndEvt' = [kind |-> kind, msg |-> msg, sent |-> sent, spf |-> spf,
                 ran |-> spf /\ RunsDijkstra(topo')]
    /\ events' = events + 1
    /\ UNCHANGED <<spVars, floodVars, walks>>

\* run(): a hello arrives; handle_hello.
RecvHello ==
    /\ ProcessAlive
    /\ \E frm \in NdNodes \ {Me}, to \in NdNodes, raw \in HopsTokens :
          LET msg == [type |-> "hello", from |-> address_of(frm),
                      to |-> address_of(to), hops |-> raw]
          IN  IF ~IsNumeric(msg.hops)
              THEN \* int(...) raises ValueError, which leaves handle_hello and run()
                   /\ task' = [task EXCEPT !["recv"] = "crashed"]
                   /\ Step("hello", msg, {}, FALSE)
                   /\ UNCHANGED <<topo, rowOrder, nochange_count, missed>>
              ELSE IF node_of(msg.to) # Me
              THEN /\ Step("hello", msg, {}, FALSE)
                   /\ UNCHANGED <<topo, rowOrder, nochange_count, task, missed>>
              ELSE LET r == HelloEffect(topo, rowOrder, node_of(msg.from), IntOf(msg.hops))
                   IN  /\ topo' = r.topo
                       /\ rowOrder' = r.order
                       /\ missed' = [v \in DOMAIN missed \cup {node_of(msg.from)} |->
                                        IF v = node_of(msg.from) THEN 0 ELSE missed[v]]
                       /\ Step("hello", msg, r.sent, FALSE)
                       /\ UNCHANGED <<nochange_count, task>>

\* run(): a topology message arrives; handle_message.
RecvMessage ==
    /\ ProcessAlive
    /\ \E u \in NdNodes, v \in NdNodes, raw \in HopsTokens :
          LET msg == [type |-> "message", from |-> address_of(u),
                      to |-> address_of(v), hops |-> raw]
          IN  IF ~IsNumeric(msg.hops)
              THEN \* except (TypeError, ValueError): return
                   /\ Step("message", msg, {}, FALSE)
                   /\ UNCHANGED <<topo, rowOrder, nochange_count, task, missed>>
              ELSE LET e == MessageEffect(topo, node_of(msg.from), node_of(msg.to),
                                          IntOf(msg.hops))
                       f == ForwardIfChanged(e.topo, nochange_count, msg, e.changed)
                   IN  /\ topo' = e.topo
                       /\ rowOrder' = MessageOrder(rowOrder, node_of(msg.from), node_of(msg.to))
                       /\ nochange_count' = f.count
                       /\ Step("message", msg, f.sent, f.spf)
                       /\ UNCHANGED <<task, missed>>

\* run(): a payload that is not JSON is skipped, a JSON object of another
\* type is ignored, and a JSON value that is not an object raises
\* AttributeError at msg.get("type"), which leaves run().
RecvOther ==
    /\ ProcessAlive
    /\ \E kind \in {"undecodable", "othertype", "scalar"} :
          /\ task' = IF kind = "scalar" THEN [task EXCEPT !["recv"] = "crashed"] ELSE task
          /\ Step(kind, <<>>, {}, FALSE)
    /\ UNCHANGED <<topo, rowOrder, nochange_count, missed>>

\* _hello_tick: one round of _send_hellos.
HelloTick ==
    /\ ProcessAlive
    /\ task["hello"] = "running"
    /\ Step("hellotick", <<>>, send_hellos(topo), FALSE)
    /\ UNCHANGED <<topo, rowOrder, nochange_count, task, missed>>

\* _neighbor_timer_tick: one round after the sleep.
NeighborTimerTick ==
    /\ ProcessAlive
    /\ task["timer"] = "running"
    /\ LET r == TimerScan(topo, rowOrder, 1, {})
       IN  IF r.crashed
           THEN \* KeyError leaves the task, which never runs again
                /\ topo' = r.topo
                /\ task' = [task EXCEPT !["timer"] = "crashed"]
                /\ Step("timer", <<>>, {}, FALSE)
                /\ UNCHANGED <<rowOrder, nochange_count, missed>>
           ELSE LET t2 == RemoveDead(r.topo, r.dead)
                IN  /\ topo' = t2
                    /\ rowOrder' = SelectSeq(rowOrder, LAMBDA x : x \notin r.dead)
                    /\ missed' = [v \in DOMAIN missed |-> missed[v] + 1]
                    /\ Step("timer", <<>>,
                            IF r.dead = {} THEN {} ELSE flood_my_adjacencies(t2),
                            r.dead # {})
                    /\ UNCHANGED <<nochange_count, task>>

\* _remote_aging_tick: one round after the sleep.
RemoteAgingTick ==
    /\ ProcessAlive
    /\ task["aging"] = "running"
    /\ topo' = RemoteAging(topo)
    /\ Step("aging", <<>>, {}, FALSE)
    /\ UNCHANGED <<rowOrder, nochange_count, task, missed>>

NodeNext ==
    \/ RecvHello
    \/ RecvMessage
    \/ RecvOther
    \/ HelloTick
    \/ NeighborTimerTick
    \/ RemoteAgingTick

NodeSpec == NodeInit /\ [][NodeNext]_vars

(***************************************************************************)
(* Specification AsyncSpec: the tasks of one node, interleaved at awaits   *)
(***************************************************************************)
\* The hellos and topology messages delivered in this specification: well
\* formed, between the nodes N1..N3, the hellos addressed to this node.
AsyncWeights == {1, 2}

AsyncInit == NodeInit

\* One step of a task up to its next await.
AsyncStep(kind, sent) ==
    /\ ndEvt' = [kind |-> kind, msg |-> <<>>, sent |-> sent, spf |-> FALSE, ran |-> FALSE]
    /\ events' = events + 1
    /\ UNCHANGED <<missed, spVars, floodVars>>

\* Task k enters or resumes the loop of _flood_my_adjacencies or _send_hellos
\* with the iterator w and runs up to the next await, to the end of the loop,
\* or to the RuntimeError of the iterator, which ends the task (and, in the
\* receive loop, leaves handle_hello and run()).
WalkRun(k, w, kind) ==
    LET r == WalkAdvance(topo', rowOrder', w)
    IN  /\ walks' = [WalksAfter(walks, rowOrder, rowOrder') EXCEPT ![k] = r.walk]
        /\ task' = IF r.end = "error" THEN [task EXCEPT ![k] = "crashed"] ELSE task
        /\ AsyncStep(kind, r.sent)

\* A task other than k changed the table and awaits nothing.
NoWalkRun(kind, sent) ==
    /\ walks' = WalksAfter(walks, rowOrder, rowOrder')
    /\ UNCHANGED task
    /\ AsyncStep(kind, sent)

\* _hello_tick: the sleep is over and _send_hellos starts its loop.
SendHellosStart ==
    /\ ProcessAlive
    /\ task["hello"] = "running"
    /\ ~walks["hello"].active
    /\ UNCHANGED <<topo, rowOrder, nochange_count>>
    /\ WalkRun("hello", NewWalk("hellos", topo, rowOrder), "hellotick")

\* The publish that task k awaits returns and its loop goes on.
WalkResume ==
    /\ ProcessAlive
    /\ \E k \in Walkers :
          /\ task[k] = "running"
          /\ walks[k].active
          /\ UNCHANGED <<topo, rowOrder, nochange_count>>
          /\ WalkRun(k, walks[k], "resume")

\* run(): the receive loop is at get_message and a hello for this node
\* arrives; handle_hello up to the first await of _flood_my_adjacencies.
AsyncRecvHello ==
    /\ ProcessAlive
    /\ ~walks["recv"].active
    /\ \E frm \in NdNodes \ {Me}, w \in AsyncWeights :
          LET floods == frm \notin DOMAIN topo[Me] \/ StoredWeight(topo, Me, frm) # w
              r      == HelloEffect(topo, rowOrder, frm, w)
          IN  /\ topo' = r.topo
              /\ rowOrder' = r.order
              /\ UNCHANGED nochange_count
              /\ IF floods
                 THEN WalkRun("recv", NewWalk("flood", topo', rowOrder'), "hello")
                 ELSE NoWalkRun("hello", {})

\* run(): a topology message arrives; handle_message forwards to the list
\* _live_neighbors returned, so it never reads the table after an await.
AsyncRecvMessage ==
    /\ ProcessAlive
    /\ ~walks["recv"].active
    /\ \E u \in NdNodes, v \in NdNodes, w \in AsyncWeights :
          LET msg == make_message(address_of(u), address_of(v), w)
              e   == MessageEffect(topo, u, v, w)
              f   == ForwardIfChanged(e.topo, nochange_count, msg, e.changed)
          IN  /\ topo' = e.topo
              /\ rowOrder' = MessageOrder(rowOrder, u, v)
              /\ nochange_count' = f.count
              /\ NoWalkRun("message", f.sent)

\* _neighbor_timer_tick: the sleep is over; the decrements and the removals
\* have no await between them, then _flood_my_adjacencies starts its loop.
AsyncTimerTick ==
    /\ ProcessAlive
    /\ task["timer"] = "running"
    /\ ~walks["timer"].active
    /\ UNCHANGED nochange_count
    /\ LET r == TimerScan(topo, rowOrder, 1, {})
       IN  IF r.crashed
           THEN /\ topo' = r.topo
                /\ UNCHANGED <<rowOrder, walks>>
                /\ task' = [task EXCEPT !["timer"] = "crashed"]
                /\ AsyncStep("timer", {})
           ELSE /\ topo' = RemoveDead(r.topo, r.dead)
                /\ rowOrder' = SelectSeq(rowOrder, LAMBDA x : x \notin r.dead)
                /\ IF r.dead # {}
                   THEN WalkRun("timer", NewWalk("flood", topo', rowOrder'), "timer")
                   ELSE NoWalkRun("timer", {})

AsyncNext ==
    \/ SendHellosStart
    \/ WalkResume
    \/ AsyncRecvHello
    \/ AsyncRecvMessage
    \/ AsyncTimerTick

AsyncSpec == AsyncInit /\ [][AsyncNext]_vars

(***************************************************************************)
(* Properties of the shortest-path functions                               *)
(***************************************************************************)
\* The least total weight of a simple path from s to t that avoids the nodes
\* of seen (brute force over all simple paths); Inf when there is none.
RECURSIVE MinPathCost(_, _, _, _)
MinPathCost(g, s, t, seen) ==
    IF s = t THEN 0
    ELSE LET nxt   == {v \in DOMAIN neighbors_of(g, s) : v \notin seen}
             costs == {Plus(MinPathCost(g, v, t, seen \cup {v}), g[s][v]) : v \in nxt}
                          \ {Inf}
         IN  IF costs = {} THEN Inf ELSE Min(costs)

BruteForce(g, s, t) == MinPathCost(g, s, t, {s})

RECURSIVE ReachFrom(_, _)
ReachFrom(g, S) ==
    LET T == S \cup UNION {DOMAIN neighbors_of(g, u) : u \in S}
    IN  IF T = S THEN S ELSE ReachFrom(g, T)

Connected(g) == \A u \in DOMAIN g : ReachFrom(g, {u}) = DOMAIN g

\* C1: on every connected undirected graph with positive integer weights and
\* for every source, the distance map returned by dijkstra (dijkstra.py, and
\* the copy in simulator.py) gives every node the least total weight over all
\* simple paths from the source, and 0 to the source.
C1_DistancesAreMinimal ==
    Connected(graph) =>
        /\ phase \in {"heap", "done"} =>
              /\ DOMAIN heapRes.dist = DOMAIN graph
              /\ \A v \in DOMAIN graph :
                    heapRes.dist[v] = BruteForce(graph, source, v)
        /\ phase = "done" =>
              /\ DOMAIN scanRes.dist = DOMAIN graph
              /\ \A v \in DOMAIN graph :
                    scanRes.dist[v] = BruteForce(graph, source, v)

\* C1 witness: both functions have run on a connected graph of four nodes in
\* which a node has a direct edge to the source that costs more than its
\* distance, so a relaxation through another node decided the result.
C1_Witness ==
    /\ phase = "done"
    /\ Connected(graph)
    /\ DOMAIN graph = Nodes
    /\ \E v \in DOMAIN graph[source] :
          /\ heapRes.dist[v] < graph[source][v]
          /\ scanRes.dist[v] < graph[source][v]

\* Following the next hops from cur to dest, each node using its own table:
\* every step strictly decreases the remaining shortest distance to dest, and
\* the walk ends at dest.
RECURSIVE FollowsDown(_, _, _, _)
FollowsDown(tables, g, cur, dest) ==
    \/ cur = dest
    \/ /\ cur \in DOMAIN tables
       /\ dest \in DOMAIN tables[cur]
       /\ Less(BruteForce(g, tables[cur][dest], dest), BruteForce(g, cur, dest))
       /\ FollowsDown(tables, g, tables[cur][dest], dest)

\* C2: the table build_next_hop(source, prev) never has source as a key, and
\* for every destination in it, following next hops from source (each node
\* using its own table, as in all_pairs_next_hops) strictly decreases the
\* remaining shortest distance at every step and ends at the destination; the
\* first hop of simulator.py's table does the same.
C2_NextHopsDescend ==
    /\ phase \in {"heap", "done"} =>
          /\ source \notin DOMAIN heapRes.nh
          /\ heapRes.nh = heapRes.tables[source]
          /\ \A dest \in DOMAIN heapRes.nh :
                FollowsDown(heapRes.tables, graph, source, dest)
    /\ phase = "done" =>
          /\ source \notin DOMAIN scanRes.nh
          /\ \A dest \in DOMAIN scanRes.nh :
                Less(BruteForce(graph, scanRes.nh[dest], dest),
                     BruteForce(graph, source, dest))

\* C2 witness: a table with a destination two or more hops away, reached
\* through a next hop that is not the destination.
C2_Witness ==
    /\ phase = "done"
    /\ \E dest \in DOMAIN heapRes.nh :
          /\ heapRes.nh[dest] # dest
          /\ dest \in DOMAIN scanRes.nh
          /\ scanRes.nh[dest] # dest
          /\ heapRes.tables[heapRes.nh[dest]][dest] # dest

(***************************************************************************)
(* Properties of flooding                                                  *)
(***************************************************************************)
\* A flooding run has started.
Started == injected # <<>>

FloodOrigin == injected.chan

FloodTtl0 == injected.msg.ttl

FloodDest == node_of(injected.msg.to)

\* Node n has handled the flooded message.
Handled(n) == injected.msg.message_id \in seen_ids[n]

\* No copy of the message is in flight.
Quiescent == net = {}

\* The nodes within k hops of the nodes of S.
RECURSIVE Within(_, _, _)
Within(g, S, k) ==
    IF k = 0 THEN S
    ELSE Within(g, S \cup UNION {DOMAIN neighbors_of(g, u) : u \in S}, k - 1)

\* Whether node n is more than k hops away from node a.
FartherThan(g, a, n, k) == n \notin Within(g, {a}, k)

\* The nodes a path from a reaches when no node of the path but its last is b.
RECURSIVE ReachBefore(_, _, _)
ReachBefore(g, S, b) ==
    LET T == S \cup UNION {DOMAIN neighbors_of(g, u) : u \in S \ {b}}
    IN  IF T = S THEN S ELSE ReachBefore(g, T, b)

\* The safety half of C3: a node adds the id to its seen-id set at most once,
\* and a node farther from the origin than the initial ttl never handles it.
C3_Safety ==
    (Started /\ Connected(topology)) =>
        \A n \in DOMAIN topology :
            /\ addCount[n] <= 1
            /\ Handled(n) <=> addCount[n] = 1
            /\ FartherThan(topology, FloodOrigin, n, FloodTtl0) => ~Handled(n)

C3_Audience == ReachBefore(topology, {FloodOrigin}, FloodDest)

C4_AtMostOnceForwarding ==
    /\ [](\A n \in Nodes : pubInv[n] <= 1)
    /\ [][lastEvt'.dup =>
            /\ lastEvt'.sent = {}
            /\ seen_ids' = seen_ids
            /\ pubCount' = pubCount
            /\ addCount' = addCount
            /\ topology' = topology
            /\ net' \subseteq net]_vars

\* C4 witness: a node that has published copies of the message is delivered
\* the same id again.
C4_Witness ==
    /\ lastEvt.dup
    /\ pubInv[lastEvt.node] = 1
    /\ pubCount[lastEvt.node] >= 2

\* The line topology N1-N2-N3-N4.
IsLine ==
    /\ DOMAIN topology = Nodes
    /\ \A u, v \in Nodes : v \in DOMAIN topology[u] <=> (u - v = 1 \/ v - u = 1)

\* C5: in the line N1-N2-N3-N4 a message flooded from N1 with ttl=2,
\* addressed to N4, is handled by N1, N2 and N3 (so all three have handled it
\* when no copy is left in flight) and never by N4.
C5_LineTtl2 ==
    (/\ Started
     /\ IsLine
     /\ FloodOrigin = Min(Nodes)
     /\ node_of(injected.msg.from) = FloodOrigin
     /\ FloodTtl0 = 2
     /\ FloodDest = Max(Nodes))
    => /\ ~Handled(Max(Nodes))
       /\ Quiescent => \A n \in Nodes \ {Max(Nodes)} : Handled(n)

\* The last hop of a received message: the via header when present, else the
\* node parsed from the `from` address.
LastHop(msg) ==
    LET h == headers_to_dict(msg.headers)
    IN  IF DictHas(h, "via") THEN DictGet(h, "via", None) ELSE node_of(msg.from)

\* C6: a node never publishes a copy of a flooded message to the neighbour it
\* received it from, which is the via header when present and otherwise the
\* node parsed from `from`.
C6_NeverBackToLastHop ==
    \A s \in lastEvt.sent : s.chan # LastHop(lastEvt.msg)

(***************************************************************************)
(* Properties of the node's adjacency management and error handling        *)
(***************************************************************************)
\* Whether the adjacency me -> n is in the graph handed to dijkstra.
InGraph(n) == n \in DOMAIN Row(get_graph_for_dijkstra(topo), Me)

\* Whether n is counted by _live_neighbors.
Alive(t, n) == n \in live_neighbors(t)

\* C7: a direct neighbour with liveness budget HELLO_MISSES from which no
\* hello is received (missed[n] counts the liveness ticks since the budget
\* was set) stays in the graph used for the shortest-path computation for the
\* first HELLO_MISSES - 1 ticks, and the HELLO_MISSES-th consecutive tick
\* excludes it and removes its entry in both directions.
C7_BudgetCountsTicks ==
    /\ [](\A n \in DOMAIN missed : missed[n] < HELLO_MISSES => InGraph(n))
    /\ [][\A n \in DOMAIN missed :
            (ndEvt'.kind = "timer" /\ events' # events /\ missed[n] = HELLO_MISSES - 1)
                => /\ missed'[n] = HELLO_MISSES
                   /\ n \notin DOMAIN Row(topo', Me)
                   /\ Me \notin DOMAIN Row(topo', n)]_vars

\* C8: a direct neighbour goes from alive to dead only by a liveness tick,
\* from dead or absent to alive only by a hello from it addressed to this
\* node, which sets its budget to HELLO_MISSES, and no topology message
\* changes which neighbours are alive.
C8_LivenessTransitions ==
    [][\A n \in NdNodes \ {Me} :
          /\ (Alive(topo, n) /\ ~Alive(topo', n)) => ndEvt'.kind = "timer"
          /\ (~Alive(topo, n) /\ Alive(topo', n))
                => /\ ndEvt'.kind = "hello"
                   /\ node_of(ndEvt'.msg.from) = n
                   /\ node_of(ndEvt'.msg.to) = Me
                   /\ topo'[Me][n].time = HELLO_MISSES
          /\ ndEvt'.kind = "message" => (Alive(topo', n) <=> Alive(topo, n))]_vars

\* C9: in every reachable state the receive loop, the hello-send task, the
\* liveness-decrement task and the remote-aging task are all still running:
\* no handler and no periodic task has failed with an unhandled error.
C9_NoTaskFails == \A k \in Tasks : task[k] = "running"

\* C10: a hello or topology message whose hops field is not a number is
\* dropped: the table and the no-change counter keep their values, nothing
\* is published, and the receive loop goes on.
C10_NonNumericHopsDropped ==
    [][(ndEvt'.kind \in {"hello", "message"} /\ events' # events
            /\ ~IsNumeric(ndEvt'.msg.hops))
          => /\ topo' = topo
             /\ nochange_count' = nochange_count
             /\ ndEvt'.sent = {}
             /\ task'["recv"] = "running"]_vars

\* C11: in every reachable table no entry carries both a liveness budget
\* (time) and a remote age (age), and a liveness budget appears only on the
\* entries topo[me][neighbour] of the node's own row.
C11_TimeAgeExclusive ==
    \A u \in DOMAIN topo : \A v \in DOMAIN topo[u] :
        /\ ~("time" \in DOMAIN topo[u][v] /\ "age" \in DOMAIN topo[u][v])
        /\ "time" \in DOMAIN topo[u][v] => u = Me

\* The step just taken is handle_message on a message with numeric hops.
MessageHandled == ndEvt'.kind = "message" /\ events' # events /\ IsNumeric(ndEvt'.msg.hops)

\* C13: handle_message (u-v:w) publishes the received message, unmodified, to
\* exactly the alive direct neighbours if and only if the stored weight of
\* u -> v or of v -> u differed from w before the call; when both already
\* equal w it publishes nothing and the table only has the age of both
\* directions set to REMOTE_AGE.
C13_ForwardIffChanged ==
    [][MessageHandled =>
        LET msg == ndEvt'.msg
            u   == node_of(msg.from)
            v   == node_of(msg.to)
            w   == IntOf(msg.hops)
        IN  IF StoredWeight(topo, u, v) # w \/ StoredWeight(topo, v, u) # w
            THEN ndEvt'.sent = {[chan |-> address_of(n), msg |-> msg] :
                                   n \in live_neighbors(topo')}
            ELSE /\ ndEvt'.sent = {}
                 /\ topo' = [x \in DOMAIN topo |-> [y \in DOMAIN topo[x] |->
                               IF (x = u /\ y = v) \/ (x = v /\ y = u)
                               THEN MetaSet(topo[x][y], "age", REMOTE_AGE)
                               ELSE topo[x][y]]]]_vars

\* C13 witness: a topology message that changed a stored weight has been
\* published to an alive neighbour.
C13_Witness ==
    /\ ndEvt.kind = "message"
    /\ ndEvt.sent # {}
    /\ \A p \in ndEvt.sent : p.msg = ndEvt.msg

\* C14: the no-change counter counts the topology messages handled without
\* change since the last changing one or the last checkpoint: an unchanged
\* message adds one, and when that makes STABLE_NOCHANGE it calls the
\* shortest-path recomputation and leaves the counter at 0; a changing message
\* sets the counter to 0 and calls no recomputation; no other step touches the
\* counter; so the counter stays within 0..STABLE_NOCHANGE-1 between handlers.
C14_NoChangeCounter ==
    /\ [](nochange_count \in 0..(STABLE_NOCHANGE - 1))
    /\ [][IF MessageHandled
          THEN LET msg == ndEvt'.msg
                   u   == node_of(msg.from)
                   v   == node_of(msg.to)
                   w   == IntOf(msg.hops)
               IN  IF StoredWeight(topo, u, v) # w \/ StoredWeight(topo, v, u) # w
                   THEN nochange_count' = 0 /\ ~ndEvt'.spf
                   ELSE IF nochange_count + 1 = STABLE_NOCHANGE
                        THEN nochange_count' = 0 /\ ndEvt'.spf
                        ELSE nochange_count' = nochange_count + 1 /\ ~ndEvt'.spf
          ELSE /\ nochange_count' = nochange_count
               /\ ndEvt'.kind \in {"hello", "message"} => ~ndEvt'.spf]_vars

\* C14 witness: the STABLE_NOCHANGE-th unchanged topology message in a row has
\* just called the recomputation and reset the counter.
C14_Witness ==
    /\ ndEvt.kind = "message"
    /\ ndEvt.spf
    /\ ndEvt.ran
    /\ nochange_count = 0

\* Whether topo[u][v] is a remote adjacency that ages: it has an age and
\* neither endpoint is this node.
Ages(t, u, v) ==
    u # Me /\ v # Me /\ v \in DOMAIN Row(t, u) /\ "age" \in DOMAIN t[u][v]

\* C15: a remote adjacency stored with age REMOTE_AGE loses one unit of age
\* per aging tick and nothing else lowers its age or deletes it, so unless a
\* topology message refreshes it, it is deleted at exactly the REMOTE_AGE-th
\* aging tick; an aging tick publishes nothing, calls no recomputation and
\* leaves every entry with this node as an endpoint unchanged.
C15_RemoteAging ==
    /\ [](\A u \in DOMAIN topo : \A v \in DOMAIN topo[u] :
             Ages(topo, u, v) => topo[u][v].age \in 1..REMOTE_AGE)
    /\ [][IF ndEvt'.kind = "aging" /\ events' # events
          THEN /\ ndEvt'.sent = {} /\ ~ndEvt'.spf
               /\ DOMAIN topo' = DOMAIN topo
               /\ \A u \in DOMAIN topo : \A v \in DOMAIN topo[u] :
                     IF Ages(topo, u, v)
                     THEN IF topo[u][v].age = 1
                          THEN v \notin DOMAIN topo'[u]
                          ELSE /\ v \in DOMAIN topo'[u]
                               /\ topo'[u][v] = MetaSet(topo[u][v], "age", topo[u][v].age - 1)
                     ELSE v \in DOMAIN topo'[u] /\ topo'[u][v] = topo[u][v]
          ELSE \A u \in DOMAIN topo : \A v \in DOMAIN topo[u] :
                     Ages(topo, u, v)
                        => /\ Ages(topo', u, v)
                           /\ topo'[u][v].age \in {topo[u][v].age, REMOTE_AGE}]_vars

\* C15 witness: an aging tick has just emptied the row of a node that is
\* known only from a topology message, REMOTE_AGE ticks after the message.
C15_Witness ==
    /\ ndEvt.kind = "aging"
    /\ events = REMOTE_AGE + 1
    /\ \E u \in DOMAIN topo \ {Me} :
          /\ topo[u] = <<>>
          /\ u \notin DOMAIN missed
          /\ u \notin DOMAIN topo[Me]

\* Whether the graph g has the edge u -> v.
HasEdge(g, u, v) == u \in DOMAIN g /\ v \in DOMAIN g[u]

\* C16: in every reachable state the graph of _get_graph_for_dijkstra has no
\* edge me -> neighbour whose liveness budget is <= 0 or missing and no edge
\* whose age is <= 0, and it has every other stored edge that has a weight,
\* with that weight.
C16_GraphMaterialization ==
    LET g == get_graph_for_dijkstra(topo)
    IN  /\ \A u \in DOMAIN g : \A v \in DOMAIN g[u] : HasEdge(topo, u, v)
        /\ \A u \in DOMAIN topo : \A v \in DOMAIN topo[u] :
              LET meta    == topo[u][v]
                  noTime  == u = Me /\ ("time" \notin DOMAIN meta \/ meta.time <= 0)
                  noAge   == "age" \in DOMAIN meta /\ meta.age <= 0
              IN  IF noTime \/ noAge \/ "weight" \notin DOMAIN meta
                  THEN ~HasEdge(g, u, v)
                  ELSE HasEdge(g, u, v) /\ g[u][v] = meta.weight

\* C16 witness: the node's own row holds an entry without a positive budget,
\* which the graph leaves out, next to an edge that the graph keeps.
C16_Witness ==
    LET g == get_graph_for_dijkstra(topo)
    IN  /\ \E v \in DOMAIN topo[Me] :
              /\ MetaGet(topo[Me][v], "time", 0) <= 0
              /\ ~HasEdge(g, Me, v)
        /\ \E v \in DOMAIN topo[Me] : HasEdge(g, Me, v)
        /\ \E u \in DOMAIN g \ {Me} : \E v \in DOMAIN g[u] : "age" \in DOMAIN topo[u][v]

RECURSIVE ChainCost(_, _, _, _, _)
ChainCost(g, prev, src, cur, left) ==
    IF cur = src THEN 0
    ELSE IF left = 0 \/ cur \notin DOMAIN prev THEN Inf
    ELSE LET p == prev[cur]
         IN  IF ~(p \in DOMAIN g /\ cur \in DOMAIN g[p]) THEN Inf
             ELSE Plus(ChainCost(g, prev, src, p, left - 1), g[p][cur])

\* The statement of C18 for one result [dist, prev].
PrevMapSound(g, src, res) ==
    /\ src \notin DOMAIN res.prev
    /\ \A v \in DOMAIN res.prev :
          LET c == ChainCost(g, res.prev, src, v, Cardinality(Nodes))
          IN  c # Inf /\ c = res.dist[v]
    /\ \A v \in DOMAIN g \ ReachFrom(g, {src}) :
          res.dist[v] = Inf /\ v \notin DOMAIN res.prev

\* C18: for every graph with positive weights and every source, the
\* predecessor map of dijkstra (dijkstra.py and simulator.py) is acyclic,
\* every node with a predecessor reaches the source by following
\* predecessors, the weights along that chain add up to its distance, and a
\* node unreachable from the source has infinite distance and no predecessor.
C18_PredecessorMap ==
    /\ phase \in {"heap", "done"} => PrevMapSound(graph, source, heapRes)
    /\ phase = "done" => PrevMapSound(graph, source, scanRes)

\* C18 witness: both maps are computed on a graph where some node is three
\* edges away from the source along its predecessor chain.
C18_Witness ==
    /\ phase = "done"
    /\ \E v \in DOMAIN heapRes.prev :
          /\ heapRes.prev[v] # source
          /\ heapRes.prev[heapRes.prev[v]] # source
    /\ \E v \in DOMAIN scanRes.prev :
          /\ scanRes.prev[v] # source
          /\ scanRes.prev[scanRes.prev[v]] # source

(***************************************************************************)
(* Properties of the copies that flooding publishes                        *)
(***************************************************************************)
\* The sum of the weights of the edges of g along the node sequence p; a step
\* between two nodes that g does not join adds nothing.
RECURSIVE PathSum(_, _)
PathSum(g, p) ==
    IF Len(p) < 2 THEN 0
    ELSE (IF p[1] \in DOMAIN g /\ p[2] \in DOMAIN g[p[1]] THEN g[p[1]][p[2]] ELSE 0)
         + PathSum(g, Tail(p))

\* C19: every copy that a node publishes to neighbour nb carries via = this
\* node, a path that begins at the node named by `from` and ends with this
\* node, which occurs in it once, and a cost equal to the sum of the edge
\* weights along that path extended by the edge this node -> nb.
C19_CopyHeaders ==
    \A p \in lastEvt.sent :
        LET h    == headers_to_dict(p.msg.headers)
            path == DictGet(h, "path", <<>>)
            me   == lastEvt.node
        IN  /\ DictGet(h, "via", None) = me
            /\ path # <<>>
            /\ path[1] = node_of(p.msg.from)
            /\ path[Len(path)] = me
            /\ Cardinality({i \in 1..Len(path) : path[i] = me}) = 1
            /\ DictGet(h, "cost", None) = PathSum(topology, Append(path, p.chan))

\* C20: every copy published by handle_message has ttl equal to the received
\* ttl minus one and greater than 0; a message received with ttl <= 1 (or
\* without ttl) is not copied at all, but its id is recorded in seen_ids.
C20_CopyTtl ==
    lastEvt.node # None =>
        /\ \A p \in lastEvt.sent :
              p.msg.ttl = lastEvt.msg.ttl - 1 /\ p.msg.ttl > 0
        /\ lastEvt.msg.ttl <= 1 =>
              /\ lastEvt.sent = {}
              /\ lastEvt.msg.message_id \in seen_ids[lastEvt.node]

\* C20 witness: a node that received a forwarded copy has published copies
\* of it in turn.
C20_Witness ==
    /\ lastEvt.node # None
    /\ lastEvt.msg.headers # <<>>
    /\ lastEvt.sent # {}
    /\ \E n \in Nodes : seen_ids[n] # {} /\ pubCount[n] = 0

\* C12: with the receive loop and the periodic tasks interleaving at every
\* await, no iteration of _flood_my_adjacencies or _send_hellos over the
\* node's own row that is suspended at a publish has had a key inserted into
\* or deleted from that row by another task, and so no task fails on its
\* iterator.
C12_NoTornIteration ==
    /\ \A k \in Walkers : walks[k].active => ~walks[k].torn
    /\ \A k \in Walkers : task[k] = "running"

(***************************************************************************)
(* Termination of flooding                                                 *)
(***************************************************************************)
\* The sum of f[n] over the nodes of S.
RECURSIVE SumOver(_, _)
SumOver(f, S) ==
    IF S = {} THEN 0
    ELSE LET n == CHOOSE x \in S : TRUE IN f[n] + SumOver(f, S \ {n})

\* The number of neighbours of n in the topology.
Degree(n) == Cardinality(DOMAIN neighbors_of(topology, n))

\* A bound on the deliveries still to come: the copies in flight, the copies
\* the nodes that have not handled the message may still publish, and the
\* duplicate deliveries the transport may still make.
FloodMeasure ==
    Cardinality(net)
    + SumOver([n \in Nodes |-> IF Handled(n) THEN 0 ELSE Degree(n)], Nodes)
    + (MaxDup - dups)

\* C21: flooding of one message terminates on every graph over the nodes,
\* cycles included, under bounded duplication by the transport: the publishes
\* for the message id never exceed the sum of the node degrees, no id ever
\* leaves a seen_ids set, and every delivery strictly lowers FloodMeasure,
\* which is never negative, so after finitely many deliveries no copy of the
\* message is in flight.
C21_FloodingTerminates ==
    /\ [](Started =>
            /\ SumOver(pubCount, Nodes) <= SumOver([n \in Nodes |-> Degree(n)], Nodes)
            /\ FloodMeasure >= 0
            /\ (FloodMeasure = 0 => net = {}))
    /\ [][\A n \in Nodes : seen_ids[n] \subseteq seen_ids'[n]]_vars
    /\ [][Started => FloodMeasure' < FloodMeasure]_vars

\* C21 witness: on a topology with a cycle and with a duplicated delivery,
\* every node has handled the message and no copy is left in flight.
C21_Witness ==
    /\ Started
    /\ net = {}
    /\ dups > 0
    /\ \A n \in Nodes : Handled(n) /\ Degree(n) >= 2
    /\ SumOver(pubCount, Nodes) >= Cardinality(Nodes)

(***************************************************************************)
(* Agreement of the two shortest-path implementations                      *)
(***************************************************************************)
\* The next hop h of table nh towards d is a neighbour of the source and the
\* first node of a path of weight dist[d] to d.
OnShortestPath(nh, dist, d) ==
    /\ nh[d] \in DOMAIN neighbors_of(graph, source)
    /\ dist[d] # Inf
    /\ Plus(BruteForce(graph, nh[d], d), graph[source][nh[d]]) = dist[d]

\* C22: on every symmetric graph with positive integer weights and for every
\* source, the heap-based dijkstra/build_next_hop of dijkstra.py and the
\* linear-scan dijkstra/build_next_hop of simulator.py return the same
\* distance for every node and next-hop tables with the same destinations,
\* and every next hop of either table lies on a shortest path to its
\* destination.
C22_ImplementationsAgree ==
    phase = "done" =>
        /\ DOMAIN heapRes.dist = DOMAIN scanRes.dist
        /\ \A v \in DOMAIN heapRes.dist : heapRes.dist[v] = scanRes.dist[v]
        /\ DOMAIN heapRes.nh = DOMAIN scanRes.nh
        /\ \A d \in DOMAIN heapRes.nh : OnShortestPath(heapRes.nh, heapRes.dist, d)
        /\ \A d \in DOMAIN scanRes.nh : OnShortestPath(scanRes.nh, scanRes.dist, d)

\* C22 witness: both implementations have run and break a tie differently:
\* some destination more than one hop away has different next hops in the
\* two tables.
C22_Witness ==
    /\ phase = "done"
    /\ \E d \in DOMAIN heapRes.nh \cap DOMAIN scanRes.nh :
          /\ heapRes.nh[d] # scanRes.nh[d]
          /\ heapRes.nh[d] # d
          /\ scanRes.nh[d] # d

=============================================================================
